---- MODULE Spec2Model ----
(***************************************************************************)
(* Model of the interactive K-Means explorer of                            *)
(* 04_MachineLearning_solution.ipynb (last code cell):                     *)
(*                                                                         *)
(*     colors = sns.color_palette(n_colors=10)                             *)
(*     mds_pos = mds.fit(data.data).embedding_                             *)
(*     @interact(n_clusters=(1,10))                                        *)
(*     def draw_plot(n_clusters):                                          *)
(*         instance = KMeans(n_clusters=n_clusters, random_state = 102)    *)
(*         clusters_assignment = instance.fit_predict(data.data)           *)
(*         plt.scatter(mds_pos[:, 0], mds_pos[:, 1], s=20,                 *)
(*                     c=[colors[i] for i in clusters_assignment])         *)
(*                                                                         *)
(* The notebook runs under "%matplotlib inline".  The kernel handles one   *)
(* request at a time: a slider message of the interact control, or the     *)
(* execution of a cell that calls draw_plot(k) directly.                   *)
(***************************************************************************)
EXTENDS Integers, Sequences, FiniteSets

\* ------------------------------------------------------------- bounds
\* number of samples of the data set (150 in the notebook)
NSamples == 12
\* requests that may wait for the kernel at one time
MaxPending == 1

\* ------------------------------------------------------------- constants
\* @interact(n_clusters=(1,10)): the slider's closed range
SliderMin == 1
SliderMax == 10
\* KMeans(..., random_state = 102)
RANDOM_STATE == 102
\* KMeans' default max_iter
MaxIter == 300
\* plt.scatter(..., s=20, ...)
MarkerSize == 20

\* values a slider message may carry (also values the control cannot hold)
SliderInputs == {0, 3, 11}
\* arguments of a direct call draw_plot(k)
CallArgs == {0, 3, 11}
\* states numpy's global generator may be in when the cell runs
EntropySeeds == {7}

VARIABLES
    data,                 \* data.data: the sample-by-feature array
    mds_pos,              \* the Point Layout (MDS embedding)
    colors,               \* the Color Palette
    np_random,            \* state of numpy's global random generator
    value,                \* the slider's value: the Cluster Parameter
    queue,                \* requests waiting for the kernel
    pc,                   \* position of the kernel in the handler
    caller,               \* "widget" or "cell": whose request is handled
    n_clusters,           \* draw_plot's argument
    clusters_assignment,  \* draw_plot's local
    figure,               \* collections on pyplot's current figure
    widget_out,           \* output area of the interact control
    widget_k,             \* value carried by the slider message of the control's last call
    cell_k,               \* argument of the last executed cell draw_plot(k)
    cell_out              \* output area of that cell

vars == <<data, mds_pos, colors, np_random, value, queue, pc, caller,
          n_clusters, clusters_assignment, figure, widget_out, widget_k, cell_k,
          cell_out>>

\* ------------------------------------------------------------- data
\* load_iris() stand-in: three groups of feature values, all distinct
IrisData == [i \in 1..NSamples |-> 10 * ((i - 1) % 3) + ((i - 1) \div 3)]

Min(S) == CHOOSE x \in S : \A y \in S : x <= y

\* variant: the embedding is fitted on all samples but the last
MDSEmbeddingMutTrain(X) ==
    [i \in 1..(Len(X) - 1) |-> <<3 * X[i], 4 * X[i]>>]

\* mds.fit(X).embedding_ with MDS(n_components=2, random_state=5): one 2-D
\* coordinate per sample, pairwise distances kept (scaled by 5)
MDSEmbedding(X) ==
    LET lo == Min({X[i] : i \in 1..Len(X)})
    IN  [i \in 1..Len(X) |-> <<3 * (X[i] - lo), 4 * (X[i] - lo)>>]

\* sns.color_palette(n_colors=10)
ColorPalette ==
    <<"#4C72B0", "#DD8452", "#55A868", "#C44E52", "#8172B3",
      "#937860", "#DA8BC3", "#8C8C8C", "#CCB974", "#64B5CD">>

\* ------------------------------------------------------------- KMeans
\* the generator behind a RandomState
LCG(s) == (75 * s + 74) % 65537

RemoveAt(s, r) == SubSeq(s, 1, r - 1) \o SubSeq(s, r + 1, Len(s))

\* <<1, ..., n>>
RECURSIVE Indices(_)
Indices(n) == IF n = 0 THEN <<>> ELSE Append(Indices(n - 1), n)

\* k distinct sample indices drawn with the generator in state s
\* (intermediate values are bound once, by x \in {e})
RECURSIVE PickCentres(_, _, _)
PickCentres(cands, k, s) ==
    IF k = 0 THEN <<>>
    ELSE CHOOSE res \in
             {<<c[1][c[2]]>> \o PickCentres(RemoveAt(c[1], c[2]), k - 1, LCG(c[3])) :
                  c \in {<<cands, (s % Len(cands)) + 1, s>>}} : TRUE

Abs(x) == IF x < 0 THEN -x ELSE x

\* a centre is the mean sum/cnt of its members; is x strictly closer to a than to b
Closer(x, a, b) == Abs(x * a.cnt - a.sum) * b.cnt < Abs(x * b.cnt - b.sum) * a.cnt

\* index of the nearest centre among C[1..n], the lowest index on ties
RECURSIVE Nearest(_, _, _)
Nearest(x, C, n) ==
    IF n = 1 THEN 1
    ELSE CHOOSE r \in {IF Closer(x, C[n], C[b]) THEN n ELSE b :
                       b \in {Nearest(x, C, n - 1)}} : TRUE

\* the label of a sample: the 0-based index of its nearest centre
Label(x, C) == Nearest(x, C, Len(C)) - 1

\* labels of X[1..n]
RECURSIVE Labels(_, _, _)
Labels(X, C, n) ==
    IF n = 0 THEN <<>>
    ELSE Append(Labels(X, C, n - 1), Label(X[n], C))

\* number, and sum, of the samples among X[1..n] that carry label lab
RECURSIVE Count(_, _, _)
Count(L, lab, n) ==
    IF n = 0 THEN 0 ELSE Count(L, lab, n - 1) + (IF L[n] = lab THEN 1 ELSE 0)

RECURSIVE SumOf(_, _, _, _)
SumOf(X, L, lab, n) ==
    IF n = 0 THEN 0 ELSE SumOf(X, L, lab, n - 1) + (IF L[n] = lab THEN X[n] ELSE 0)

\* centres C[1..n] moved to the mean of their members (an empty cluster keeps its centre)
RECURSIVE Update(_, _, _, _)
Update(X, L, C, n) ==
    IF n = 0 THEN <<>>
    ELSE Append(Update(X, L, C, n - 1),
                IF Count(L, n - 1, Len(L)) = 0 THEN C[n]
                ELSE [sum |-> SumOf(X, L, n - 1, Len(L)), cnt |-> Count(L, n - 1, Len(L))])

\* initial centres: the picked samples
RECURSIVE InitCentres(_, _, _)
InitCentres(X, idx, n) ==
    IF n = 0 THEN <<>>
    ELSE Append(InitCentres(X, idx, n - 1), [sum |-> X[idx[n]], cnt |-> 1])

\* Lloyd's iteration from centres C: label, move the centres, repeat until
\* the centres stay or max_iter is used up; the result is the labels.
\* (Each intermediate value is bound once, by x \in {e}.)
RECURSIVE Lloyd(_, _, _)
LloydFrom(X, C, L, it) ==
    CHOOSE r \in {IF C2 = C \/ it = 0 THEN L ELSE Lloyd(X, C2, it - 1) :
                  C2 \in {Update(X, L, C, Len(C))}} : TRUE
Lloyd(X, C, it) ==
    CHOOSE r \in {LloydFrom(X, C, L, it) : L \in {Labels(X, C, Len(X))}} : TRUE

\* random_state arguments: an int seed, or None
IntSeed(n) == [kind |-> "int", seed |-> n]
NoSeed == [kind |-> "None", seed |-> 0]

\* check_random_state(seed): a fresh generator for an int, numpy's global one for None
check_random_state(seed) == IF seed.kind = "None" THEN np_random ELSE seed.seed

\* KMeans(n_clusters=k, random_state=seed).fit_predict(X): one label per
\* sample, or ValueError (k < 1, or more clusters than samples)
fit_predict(X, k, seed) ==
    IF k < 1 \/ k > Len(X)
    THEN [ok |-> FALSE, val |-> <<>>, ename |-> "ValueError"]
    ELSE [ok |-> TRUE,
          val |-> CHOOSE r \in {Lloyd(X, C0, MaxIter) :
                                C0 \in {InitCentres(X, idx, k) :
                                        idx \in {PickCentres(Indices(Len(X)), k,
                                                             LCG(check_random_state(seed)))}}} : TRUE,
          ename |-> ""]

\* variants: no seed; the cluster count of the earlier cell (3); one cluster more
NewKMeansMutUnseeded(k) == [n_clusters |-> k, random_state |-> NoSeed]
NewKMeansMutFixedK(k) == [n_clusters |-> 3, random_state |-> IntSeed(RANDOM_STATE)]
NewKMeansMutPlusOne(k) == [n_clusters |-> k + 1, random_state |-> IntSeed(RANDOM_STATE)]

\* instance = KMeans(n_clusters=n_clusters, random_state = 102)
NewKMeans(k) == [n_clusters |-> k, random_state |-> IntSeed(RANDOM_STATE)]

\* variant: the array is centred in place (copy_x=False)
AfterFitMutInPlace(X) == [i \in 1..Len(X) |-> X[i] - 11]

\* fit_predict copies its input (copy_x=True): the caller's array is left as it was
AfterFit(X) == X

\* ------------------------------------------------------------- plotting
\* pal[i] for a Python list index i (negative indices count from the end)
ListIndexOk(pal, i) == -Len(pal) <= i /\ i < Len(pal)
ListGet(pal, i) == IF i < 0 THEN pal[Len(pal) + i + 1] ELSE pal[i + 1]

RECURSIVE ColorsOf(_, _, _)
ColorsOf(pal, L, n) ==
    IF n = 0 THEN <<>> ELSE Append(ColorsOf(pal, L, n - 1), ListGet(pal, L[n]))

\* variant: the lookup wraps around the palette and never raises
ColorListMutWrap(pal, L) ==
    [ok |-> TRUE, val |-> [i \in 1..Len(L) |-> pal[(L[i] % Len(pal)) + 1]], ename |-> ""]

\* [colors[i] for i in clusters_assignment], or IndexError
ColorList(pal, L) ==
    IF \E i \in 1..Len(L) : ~ListIndexOk(pal, L[i])
    THEN [ok |-> FALSE, val |-> <<>>, ename |-> "IndexError"]
    ELSE [ok |-> TRUE, val |-> ColorsOf(pal, L, Len(L)), ename |-> ""]

\* plt.scatter(x, y, s=20, c=c): one more collection on the current axes
scatter(fig, pos, c) ==
    Append(fig, [offsets |-> pos, facecolors |-> c, s |-> MarkerSize])

Figure(fig) == [type |-> "figure", collections |-> fig]
Traceback(e) == [type |-> "traceback", ename |-> e]

\* inline backend, after each execution: every open figure is shown ...
ShownFigures(fig) == IF fig = <<>> THEN <<>> ELSE <<Figure(fig)>>

\* variant: the figure stays open after it was shown
CloseAllMutKeep(fig) == fig

\* ... and then closed: the next call draws on a fresh figure
CloseAll(fig) == <<>>

\* ------------------------------------------------------------- control
\* variant: an unbounded control
ClampMutNone(v) == v

\* the bounded slider keeps its value inside [min, max]
Clamp(v) ==
    IF v < SliderMin THEN SliderMin ELSE IF v > SliderMax THEN SliderMax ELSE v

\* the slider's initial value for the abbreviation (1,10)
InitialValue == SliderMin + (SliderMax - SliderMin) \div 2

\* variant: requests are taken at any time
KernelReadyMutAlways == TRUE

\* the kernel takes the next request only when no handler is running
KernelReady == pc = "idle"

\* variant: the failed call is started again
PcAfterRaiseMutRetry == "fit"

\* where the kernel continues after an exception left draw_plot
PcAfterRaise == "idle"

\* the cell has run up to the decorator: the globals are set, the slider is
\* built, and interact makes its first call draw_plot(value)
Init ==
    /\ data = IrisData
    /\ mds_pos = MDSEmbedding(IrisData)
    /\ colors = ColorPalette
    /\ np_random \in EntropySeeds
    /\ value = InitialValue
    /\ queue = <<>>
    /\ pc = "fit"
    /\ caller = "widget"
    /\ n_clusters = InitialValue
    /\ clusters_assignment = <<>>
    /\ figure = <<>>
    /\ widget_out = <<>>
    /\ widget_k = InitialValue
    /\ cell_k = 0
    /\ cell_out = <<>>

\* the user moves the slider (or sets its value): a message to the kernel
MoveSlider(v) ==
    /\ Len(queue) < MaxPending
    /\ queue' = Append(queue, [type |-> "comm", arg |-> v])
    /\ UNCHANGED <<data, mds_pos, colors, np_random, value, pc, caller, n_clusters,
                   clusters_assignment, figure, widget_out, widget_k, cell_k, cell_out>>

\* the user executes a cell holding draw_plot(k)
RunCell(k) ==
    /\ Len(queue) < MaxPending
    /\ queue' = Append(queue, [type |-> "call", arg |-> k])
    /\ UNCHANGED <<data, mds_pos, colors, np_random, value, pc, caller, n_clusters,
                   clusters_assignment, figure, widget_out, widget_k, cell_k, cell_out>>

\* the kernel handles a slider message: the control's value is set to the
\* message's value and clamped into the slider's range.  A message that only
\* restates the held value changes nothing and calls nothing; any other
\* message notifies the observer, which calls draw_plot(value) -- also when
\* the clamped value equals the one held before (11 sent while 10 is held)
AcceptComm ==
    /\ KernelReady
    /\ queue # <<>>
    /\ Head(queue).type = "comm"
    /\ queue' = Tail(queue)
    /\ IF Head(queue).arg = value
       THEN UNCHANGED <<value, pc, caller, n_clusters, clusters_assignment, widget_k>>
       ELSE /\ widget_k' = Head(queue).arg
            /\ value' = Clamp(Head(queue).arg)
            /\ pc' = "fit"
            /\ caller' = "widget"
            /\ n_clusters' = Clamp(Head(queue).arg)
            /\ clusters_assignment' = <<>>
    /\ UNCHANGED <<data, mds_pos, colors, np_random, figure, widget_out, cell_k, cell_out>>

\* the kernel executes the cell draw_plot(k): the cell's old output is dropped
AcceptCell ==
    /\ KernelReady
    /\ queue # <<>>
    /\ Head(queue).type = "call"
    /\ queue' = Tail(queue)
    /\ pc' = "fit"
    /\ caller' = "cell"
    /\ n_clusters' = Head(queue).arg
    /\ clusters_assignment' = <<>>
    /\ cell_k' = Head(queue).arg
    /\ cell_out' = <<>>
    /\ UNCHANGED <<data, mds_pos, colors, np_random, value, figure, widget_out, widget_k>>

\* an exception leaves draw_plot: the traceback is shown in the caller's output
\* area (the control's area is cleared first), open figures are flushed
Raise(e) ==
    /\ pc' = PcAfterRaise
    /\ caller' = IF PcAfterRaise = "idle" THEN "none" ELSE caller
    /\ n_clusters' = IF PcAfterRaise = "idle" THEN 0 ELSE n_clusters
    /\ clusters_assignment' = <<>>
    /\ figure' = CloseAll(figure)
    /\ IF caller = "widget"
       THEN /\ widget_out' = <<Traceback(e)>> \o ShownFigures(figure)
            /\ UNCHANGED cell_out
       ELSE /\ cell_out' = <<Traceback(e)>> \o ShownFigures(figure)
            /\ UNCHANGED widget_out

\* instance = KMeans(...); clusters_assignment = instance.fit_predict(data.data)
Fit ==
    /\ pc = "fit"
    /\ UNCHANGED <<mds_pos, colors, value, queue, widget_k, cell_k>>
    /\ \E instance \in {NewKMeans(n_clusters)} :
       \E r \in {fit_predict(data, instance.n_clusters, instance.random_state)} :
           /\ np_random' = IF instance.random_state.kind = "None" /\ r.ok
                           THEN LCG(np_random) ELSE np_random
           /\ IF r.ok
              THEN /\ clusters_assignment' = r.val
                   /\ data' = AfterFit(data)
                   /\ pc' = "scatter"
                   /\ UNCHANGED <<caller, n_clusters, figure, widget_out, cell_out>>
              ELSE /\ Raise(r.ename)
                   /\ UNCHANGED data

\* plt.scatter(mds_pos[:, 0], mds_pos[:, 1], s=20, c=[colors[i] for i in ...])
Scatter ==
    /\ pc = "scatter"
    /\ UNCHANGED <<data, mds_pos, colors, np_random, value, queue, widget_k, cell_k>>
    /\ \E c \in {ColorList(colors, clusters_assignment)} :
           IF c.ok
           THEN /\ figure' = scatter(figure, mds_pos, c.val)
                /\ pc' = "flush"
                /\ UNCHANGED <<caller, n_clusters, clusters_assignment, widget_out, cell_out>>
           ELSE Raise(c.ename)

\* draw_plot returns; the inline backend shows the figure in the caller's
\* output area (the control's area is cleared first) and closes it
Flush ==
    /\ pc = "flush"
    /\ pc' = "idle"
    /\ caller' = "none"
    /\ n_clusters' = 0
    /\ clusters_assignment' = <<>>
    /\ figure' = CloseAll(figure)
    /\ IF caller = "widget"
       THEN /\ widget_out' = ShownFigures(figure)
            /\ UNCHANGED cell_out
       ELSE /\ cell_out' = ShownFigures(figure)
            /\ UNCHANGED widget_out
    /\ UNCHANGED <<data, mds_pos, colors, np_random, value, queue, widget_k, cell_k>>

\* what the kernel does: take a request, or run the next line of the handler
KernelStep ==
    \/ AcceptComm
    \/ AcceptCell
    \/ Fit
    \/ Scatter
    \/ Flush

Next ==
    \/ \E v \in SliderInputs : MoveSlider(v)
    \/ \E k \in CallArgs : RunCell(k)
    \/ KernelStep

Spec == Init /\ [][Next]_vars

\* the kernel keeps running: a started handler runs to its end (the call is
\* synchronous), and a waiting request is taken once the kernel is free
FairSpec == Spec /\ WF_vars(KernelStep)

\* ------------------------------------------------------------- views
Valid(k) == k \in SliderMin..SliderMax
Recomputing == pc \in {"fit", "scatter", "flush"}

\* an output area shows exactly one plot / exactly one traceback
IsPlot(out) == Len(out) = 1 /\ out[1].type = "figure"
IsTraceback(out) == Len(out) = 1 /\ out[1].type = "traceback"

\* the collections some output area or the open figure holds
AllCollections ==
    {figure[i] : i \in 1..Len(figure)}
    \cup UNION {{o.collections[i] : i \in 1..Len(o.collections)} :
                o \in {x \in {widget_out[j] : j \in 1..Len(widget_out)}
                              \cup {cell_out[j] : j \in 1..Len(cell_out)} :
                       x.type = "figure"}}

\* the label a drawn colour stands for
LabelOf(c) == CHOOSE l \in 0..(Len(colors) - 1) : colors[l + 1] = c

\* the assignment a plot renders (its single collection's colours, decoded)
RenderedAssignment(out) ==
    LET fc == out[1].collections[1].facecolors
    IN  [i \in 1..Len(fc) |-> LabelOf(fc[i])]

\* the plot of a full redraw for assignment L: one collection, the i-th point
\* at the i-th layout coordinate in the colour of its label
FullRedraw(L) ==
    <<[type |-> "figure",
       collections |-> <<[offsets |-> mds_pos,
                          facecolors |-> [i \in 1..Len(mds_pos) |-> colors[L[i] + 1]],
                          s |-> MarkerSize]>>]>>

\* ------------------------------------------------------------- claims

\* the call being handled was asked for with a k outside [1,10]: by a slider
\* message carrying such a value, or by a cell calling draw_plot(k)
OutOfRangeCall ==
    /\ Recomputing
    /\ \/ caller = "widget" /\ ~Valid(widget_k)
       \/ caller = "cell" /\ ~Valid(cell_k)

\* the plots an output area shows, and whether it shows an error
IsFigure(o) == o.type = "figure"
Plots(out) == SelectSeq(out, IsFigure)
HasTraceback(out) == \E j \in 1..Len(out) : out[j].type = "traceback"

RenderedShapeOk ==
    \A c \in AllCollections :
        /\ Len(c.facecolors) = Len(mds_pos)
        /\ Len(c.offsets) = Len(mds_pos)
        /\ \A i \in 1..Len(c.facecolors) :
              \E l \in 0..(Len(colors) - 1) : colors[l + 1] = c.facecolors[i]

\* every label of the assignment a call has computed is an index of the palette
LabelsInPalette ==
    \A i \in 1..Len(clusters_assignment) :
        clusters_assignment[i] \in 0..(Len(colors) - 1)

C3_LabelsBelowK ==
    /\ (pc \in {"scatter", "flush"} /\ Valid(n_clusters)) =>
          \A i \in 1..Len(clusters_assignment) :
              0 <= clusters_assignment[i] /\ clusters_assignment[i] < n_clusters
    /\ (pc = "idle" /\ IsPlot(widget_out)) =>
          \A i \in 1..NSamples :
              RenderedAssignment(widget_out)[i] \in 0..(value - 1)
    /\ (pc = "idle" /\ IsPlot(cell_out) /\ Valid(cell_k)) =>
          \A i \in 1..NSamples :
              RenderedAssignment(cell_out)[i] \in 0..(cell_k - 1)

C3_Witness ==
    /\ pc = "flush" /\ n_clusters = SliderMax
    /\ \E i \in 1..Len(clusters_assignment) : clusters_assignment[i] = SliderMax - 1

\* C4: two calls with the same k on the same data render the same assignment:
\* when the cell ran draw_plot(k) for the k the control holds, and both show
\* a plot, the two plots are equal.
C4_SameKSameAssignment ==
    (pc = "idle" /\ IsPlot(widget_out) /\ IsPlot(cell_out) /\ cell_k = value) =>
        RenderedAssignment(cell_out) = RenderedAssignment(widget_out)

C4_Witness ==
    /\ pc = "idle" /\ IsPlot(widget_out) /\ IsPlot(cell_out)
    /\ cell_k = value /\ value = 3

\* C5: the slider's value is always an integer in [1,10], and it changes only
\* in the step that takes a slider message while no handler runs.
C5_ParameterInRange ==
    /\ [](value \in Int /\ Valid(value))
    /\ [][value' # value =>
            /\ pc = "idle" /\ queue # <<>> /\ Head(queue).type = "comm"
            /\ queue' = Tail(queue)]_vars

C5_Witness ==
    /\ pc = "scatter" /\ caller = "widget" /\ value = SliderMin
    /\ queue # <<>> /\ Head(queue).arg = 11

\* C6: when a valid call completes, the caller's output area shows exactly one
\* plot with exactly one collection: point i at mds_pos[i], coloured
\* colors[assignment[i]] for the assignment just computed.
C6_FullRedraw ==
    [][(pc = "flush" /\ pc' = "idle") =>
          /\ caller = "widget" => widget_out' = FullRedraw(clusters_assignment)
          /\ caller = "cell" => cell_out' = FullRedraw(clusters_assignment)
          /\ figure' = <<>>]_vars

C6_Witness ==
    /\ pc = "idle" /\ IsPlot(widget_out) /\ IsPlot(cell_out)
    /\ value = 1 /\ cell_k = 3
    /\ Len(widget_out[1].collections) = 1

\* C7: the explorer is Idle or Recomputing; while it is Recomputing no request
\* is taken from the queue, the parameter and the call's argument do not
\* change, and the running call is the one that was started.
C7_NoOverlap ==
    /\ [](pc = "idle" \/ Recomputing)
    /\ [](pc = "idle" => caller = "none" /\ figure = <<>>)
    /\ [][Recomputing =>
            /\ Len(queue') >= Len(queue)
            /\ SubSeq(queue', 1, Len(queue)) = queue
            /\ value' = value
            /\ (pc' # "idle" => n_clusters' = n_clusters /\ caller' = caller)]_vars

C7_Witness ==
    /\ pc = "scatter" /\ Len(queue) = MaxPending /\ caller = "widget"

\* C8: whenever the explorer is idle, the assignment its control renders is
\* the clustering of the data for the current Cluster Parameter alone.
C8_DependsOnKOnly ==
    pc = "idle" =>
        /\ IsPlot(widget_out)
        /\ RenderedAssignment(widget_out) = fit_predict(data, value, IntSeed(RANDOM_STATE)).val

C8_Witness ==
    /\ pc = "idle" /\ value = 10 /\ cell_k = 3 /\ IsPlot(cell_out)
    /\ IsPlot(widget_out)

\* C9: no step changes the Point Layout, the feature data or the Color Palette.
C9_InputsUnchanged ==
    [][data' = data /\ mds_pos' = mds_pos /\ colors' = colors]_vars

C9_Witness ==
    /\ pc = "idle" /\ IsTraceback(cell_out) /\ cell_k = 11
    /\ value = 1 /\ data = IrisData

\* C10: a started call always ends (the explorer reaches Idle again), for a
\* valid and for a rejected k alike, and an idle explorer with a waiting
\* request can take it.
C10_EventuallyIdle ==
    /\ Recomputing ~> (pc = "idle")
    /\ (Recomputing /\ ~Valid(n_clusters)) ~> (pc = "idle" /\ IsTraceback(cell_out))
    /\ [](pc = "idle" /\ queue # <<>> => ENABLED (AcceptComm \/ AcceptCell))

C10_Witness ==
    /\ pc = "idle" /\ cell_out = <<Traceback("ValueError")>>
    /\ queue # <<>> /\ Valid(Head(queue).arg)

TypeOK ==
    /\ value \in Int
    /\ widget_k \in Int
    /\ pc \in {"idle", "fit", "scatter", "flush"}
    /\ caller \in {"none", "widget", "cell"}
    /\ Len(queue) <= MaxPending

====
